---- MODULE Spec2Model ----
(***************************************************************************)
(* A model of the textit client library (src/textit): the pending batch    *)
(* of one TextIT client, the operations that fill and drain it, the        *)
(* command and payload builders, the response classifier check_result,     *)
(* the result selector choose_response and the batch reconciler            *)
(* sign_responses / _wrap_response.                                         *)
(*                                                                         *)
(* Python values are tagged records: [t |-> "None"], [t |-> "str", v],     *)
(* [t |-> "int", v], [t |-> "bool", v], [t |-> "enum", cls, v] (a member   *)
(* of an enum.Enum class with its value), [t |-> "list", v] (a sequence),  *)
(* [t |-> "dict", v] (a function from keys to values) and                  *)
(* [t |-> "obj", cls, v] (an instance of a result class).                  *)
(***************************************************************************)
EXTENDS Integers, Sequences, FiniteSets, TLC

VARIABLES
    request,    \* TextIT.request: the list object the client's attribute refers to
    lists,      \* the list objects alive: object id -> sequence of command objects
    tasks,      \* coroutines suspended in make_request, awaiting the transport
    last,       \* the most recent call step: what was called and how it ended
    carried,    \* per command object: the number of send_request payloads sent with it
    created,    \* the number of command objects deferred calls have created
    cr_args,    \* check_result: the arguments of the call
    cr_result,  \* check_result: its outcome
    ch_args,    \* choose_response: the candidate list passed
    ch_result,  \* choose_response: its outcome
    cmd_call,   \* a single call: the operation and the arguments it is made with
    wr_args,    \* reconciliation: the kinds and the raw responses
    wr_result   \* reconciliation: its outcome

clientVars == <<request, lists, tasks, last, carried, created>>
checkVars  == <<cr_args, cr_result>>
chooseVars == <<ch_args, ch_result>>
cmdVars    == <<cmd_call>>
wrapVars   == <<wr_args, wr_result>>
vars == <<request, lists, tasks, last, carried, created, cr_args, cr_result,
          ch_args, ch_result, cmd_call, wr_args, wr_result>>

(***************************************************************************)
(* Python values                                                           *)
(***************************************************************************)
PNone       == [t |-> "None"]
PStr(s)     == [t |-> "str", v |-> s]
PInt(n)     == [t |-> "int", v |-> n]
PBool(b)    == [t |-> "bool", v |-> b]
PEnum(c, n) == [t |-> "enum", cls |-> c, v |-> n]
PList(s)    == [t |-> "list", v |-> s]
PDict(f)    == [t |-> "dict", v |-> f]
PObj(c, f)  == [t |-> "obj", cls |-> c, v |-> f]
EmptyDict   == PDict(<<>>)

\* bool(x): the truth value Python gives a value
Truthy(x) ==
    CASE x.t = "None" -> FALSE
      [] x.t = "str"  -> x.v # ""
      [] x.t = "int"  -> x.v # 0
      [] x.t = "bool" -> x.v
      [] x.t = "list" -> Len(x.v) > 0
      [] x.t = "dict" -> DOMAIN x.v # {}
      [] OTHER        -> TRUE

\* d.get(k) of a dict value
DictGet(d, k) == IF k \in DOMAIN d.v THEN d.v[k] ELSE PNone

\* str(x) inside an f-string, for the values the messages are built from
PyStr(x) ==
    CASE x.t = "None" -> "None"
      [] x.t = "str"  -> x.v
      [] x.t = "int"  -> ToString(x.v)
      [] x.t = "bool" -> IF x.v THEN "True" ELSE "False"
      [] OTHER        -> "<" \o x.t \o ">"

\* How a call ends: with a value, or with an exception of a class and a message
Return(v)   == [kind |-> "return", value |-> v]
Raise(e, m) == [kind |-> "raise", exc |-> e, msg |-> m]
NotCalled   == [kind |-> "none"]

(***************************************************************************)
(* src/textit/types/exceptions.py                                          *)
(***************************************************************************)
\* the classes the module defines, each with its base class
ExceptionBase ==
    [APIError |-> "Exception", NetworkError |-> "APIError", BadRequest |-> "APIError",
     NotFound |-> "APIError", Conflict |-> "APIError", Unauthorized |-> "APIError",
     ToLongText |-> "ValueError", ALotOfWords |-> "ValueError",
     NegativeNumber |-> "ValueError"]

\* raise exceptions.<name>(msg): the attribute lookup on the module comes first,
\* and a name the module does not define raises AttributeError instead
RaiseExc(name, m) ==
    IF name \in DOMAIN ExceptionBase
    THEN Raise(name, m)
    ELSE Raise("AttributeError", "module has no attribute " \o name)

(***************************************************************************)
(* src/textit/api.py: check_result                                         *)
(***************************************************************************)
HTTP_OK                    == 200
HTTP_IM_USED               == 226
HTTP_BAD_REQUEST           == 400
HTTP_UNAUTHORIZED          == 401
HTTP_FORBIDDEN             == 403
HTTP_NOT_FOUND             == 404
HTTP_CONFLICT              == 409
HTTP_INTERNAL_SERVER_ERROR == 500

EXPECTED_CONTENT_TYPE == "text/html"

\* A response body is a text; the model keeps, beside the text, what json.loads
\* makes of it: json = FALSE for a text that is no JSON document.
Undecodable(text)  == [text |-> text, json |-> FALSE, value |-> PNone]
Decodable(text, v) == [text |-> text, json |-> TRUE, value |-> v]

\* json.loads(body): the decoded value, or ValueError (JSONDecodeError)
json_loads(body) ==
    IF body.json THEN Return(body.value)
    ELSE Raise("ValueError", "Expecting value")

\* api.py lines 33-38 without lines 35-36: a decoded list is kept as it is
ClassifiedJsonKeepBody(body) ==
    LET d == json_loads(body)
    IN  IF d.kind = "raise" THEN Return(EmptyDict) ELSE Return(d.value)

\* api.py lines 33-38: result_json after the try block. A list is replaced by its
\* first element; ValueError gives {}; the IndexError of an empty list is not caught.
ClassifiedJson(body) ==
    LET d == json_loads(body)
    IN  IF d.kind = "raise"
        THEN Return(EmptyDict)
        ELSE IF d.value.t = "list"
             THEN IF Len(d.value.v) = 0
                  THEN Raise("IndexError", "list index out of range")
                  ELSE Return(d.value.v[1])
             ELSE Return(d.value)

\* api.py line 42: the message of the APIError raised for an error field
ErrorMessage(error) ==
    PyStr(DictGet(error, "message")) \o " [" \o PyStr(DictGet(error, "status")) \o "]"

\* api.py lines 44-56: the outcome the HTTP status decides
StatusOutcome(status_code, result_json, body) ==
    IF HTTP_OK <= status_code /\ status_code <= HTTP_IM_USED
    THEN Return(result_json)
    ELSE IF status_code = HTTP_BAD_REQUEST
    THEN RaiseExc("BadRequest", "Bad response from API server: " \o body.text)
    ELSE IF status_code = HTTP_NOT_FOUND
    THEN RaiseExc("NotFound", "Target server not found: " \o body.text)
    ELSE IF status_code = HTTP_CONFLICT
    THEN RaiseExc("Conflict", "Is there conflict while getting response: " \o body.text)
    ELSE IF status_code \in {HTTP_UNAUTHORIZED, HTTP_FORBIDDEN}
    THEN RaiseExc("Unauthorized", "The server did not accept the request: " \o body.text)
    ELSE IF status_code >= HTTP_INTERNAL_SERVER_ERROR
    THEN RaiseExc("APIError", "Some error while getting response: " \o body.text)
    ELSE RaiseExc("APIError", body.text \o " [" \o ToString(status_code) \o "]")

\* api.py lines 40-42: the error field of a dict result, when it is truthy
ErrorField(result_json) ==
    IF result_json.t = "dict" /\ Truthy(DictGet(result_json, "error"))
    THEN <<DictGet(result_json, "error")>>
    ELSE <<>>

\* check_result with the HTTP status looked at before the error field
check_result_status_first(content_type, status_code, body) ==
    IF content_type # EXPECTED_CONTENT_TYPE
    THEN RaiseExc("NetworkError", "Invalid response with content type " \o content_type
                                  \o ": \"" \o body.text \o "\"")
    ELSE LET c == ClassifiedJson(body)
         IN  IF c.kind = "raise" THEN c
             ELSE IF HTTP_OK <= status_code /\ status_code <= HTTP_IM_USED
             THEN Return(c.value)
             ELSE IF ErrorField(c.value) # <<>>
             THEN RaiseExc("APIError", ErrorMessage(ErrorField(c.value)[1]))
             ELSE StatusOutcome(status_code, c.value, body)

\* api.py lines 13-56
check_result(content_type, status_code, body) ==
    IF content_type # EXPECTED_CONTENT_TYPE
    THEN RaiseExc("NetworkError", "Invalid response with content type " \o content_type
                                  \o ": \"" \o body.text \o "\"")
    ELSE LET c == ClassifiedJson(body)
         IN  IF c.kind = "raise"
             THEN c
             ELSE IF ErrorField(c.value) # <<>>
             THEN LET error == ErrorField(c.value)[1]
                  IN  IF error.t = "dict"
                      THEN RaiseExc("APIError", ErrorMessage(error))
                      ELSE Raise("AttributeError", "object has no attribute get")
             ELSE StatusOutcome(status_code, c.value, body)

(***************************************************************************)
(* Texts. An argument text is a sequence of characters, so that len() and  *)
(* split() are computed; str values inside commands are TLA+ strings.      *)
(***************************************************************************)
RECURSIVE Join(_)
Join(cs) == IF cs = <<>> THEN "" ELSE Head(cs) \o Join(Tail(cs))

\* text.split(sep) for a one-character separator: the pieces between separators
RECURSIVE SplitOn(_, _)
SplitOn(cs, sep) ==
    IF cs = <<>>
    THEN << <<>> >>
    ELSE LET rest == SplitOn(Tail(cs), sep)
         IN  IF Head(cs) = sep
             THEN << <<>> >> \o rest
             ELSE << <<Head(cs)>> \o rest[1] >> \o Tail(rest)

(***************************************************************************)
(* src/textit/types: helper.Item, base.APIMethod, numeral, word            *)
(***************************************************************************)
\* str.lower() of the attribute names Item is given
LowerName ==
    [CORRECT |-> "correct", HINT |-> "hint", NUMERAL |-> "numeral",
     SPELLER |-> "speller", WORD |-> "word", SET_FORM |-> "set_form",
     COGNATE |-> "cognate", SYNONYM |-> "synonym", LAT_TO_CYR |-> "lat_to_cyr",
     COUNT |-> "count", ORDER |-> "order",
     NUMBER |-> "number", NUMBER_STRING |-> "number_string", STRING |-> "string"]
    @@ ("UNION" :> "union")

\* helper.Item: __set_name__ keeps a given value and otherwise takes name.lower();
\* __get__ returns that string (value = "" stands for Item() with no value)
Item(name, value) == IF value # "" THEN value ELSE LowerName[name]

\* base.APIMethod
APIMethod ==
    [CORRECT |-> Item("CORRECT", ""), HINT |-> Item("HINT", ""),
     NUMERAL |-> Item("NUMERAL", ""), SPELLER |-> Item("SPELLER", ""),
     WORD |-> Item("WORD", ""), SET_FORM |-> Item("SET_FORM", "setform"),
     COGNATE |-> Item("COGNATE", ""), SYNONYM |-> Item("SYNONYM", ""),
     LAT_TO_CYR |-> Item("LAT_TO_CYR", "lattocyr")]

\* numeral.NumeralType and numeral.NumeralFormat: plain strings, through Item
NumeralType ==
    [COUNT |-> Item("COUNT", ""), ORDER |-> Item("ORDER", "")]
    @@ ("UNION" :> Item("UNION", ""))
NumeralFormat ==
    [NUMBER |-> Item("NUMBER", "Number"),
     NUMBER_STRING |-> Item("NUMBER_STRING", "Number-string"),
     STRING |-> Item("STRING", "")]

\* word.py: the enum.Enum classes, each with the integer values of its members
EnumValues ==
    [WordPart |-> 1..14, WordCase |-> 1..6, WordForm |-> 1..4, WordGender |-> 1..4,
     WordKind |-> 1..2, WordAnimate |-> 1..2, WordNumber |-> 1..2,
     WordPerson |-> 1..3, WordTense |-> 1..3]

WordCase_NOMINATIVE == PEnum("WordCase", 1)
WordCase_GENITIVE   == PEnum("WordCase", 2)
WordPart_NOUN       == PEnum("WordPart", 1)
WordNumber_PLURAL   == PEnum("WordNumber", 2)
WordGender_FEMININE == PEnum("WordGender", 2)
WordTense_PAST      == PEnum("WordTense", 2)
WordPerson_THIRD_PERSON == PEnum("WordPerson", 3)
WordForm_SHORT      == PEnum("WordForm", 4)
WordKind_PERFECT    == PEnum("WordKind", 2)

(***************************************************************************)
(* src/textit/utils.py                                                     *)
(***************************************************************************)
\* _prepare_arg with the int test ahead of the bool test: a bool gives str(bool)
RECURSIVE prepare_arg_int_first(_)
prepare_arg_int_first(arg) ==
    CASE arg.t = "None" -> PStr("")
      [] arg.t = "list" -> PList([i \in DOMAIN arg.v |-> prepare_arg_int_first(arg.v[i])])
      [] arg.t = "dict" -> PDict([k \in DOMAIN arg.v |-> prepare_arg_int_first(arg.v[k])])
      [] arg.t = "enum" -> PStr(ToString(arg.v))
      [] arg.t = "bool" -> PStr(IF arg.v THEN "True" ELSE "False")
      [] arg.t = "int"  -> PStr(ToString(arg.v))
      [] OTHER          -> arg

\* _prepare_arg (lines 19-38): None becomes "", lists and dicts are mapped, an Enum
\* member gives str(value), a bool its lowercase name, an int its decimal string
RECURSIVE prepare_arg(_)
prepare_arg(arg) ==
    CASE arg.t = "None" -> PStr("")
      [] arg.t = "list" -> PList([i \in DOMAIN arg.v |-> prepare_arg(arg.v[i])])
      [] arg.t = "dict" -> PDict([k \in DOMAIN arg.v |-> prepare_arg(arg.v[k])])
      [] arg.t = "enum" -> PStr(ToString(arg.v))
      [] arg.t = "bool" -> PStr(IF arg.v THEN "true" ELSE "false")
      [] arg.t = "int"  -> PStr(ToString(arg.v))
      [] OTHER          -> arg

\* generate_command(**kwargs) (lines 41-53): the keyword arguments that are not
\* None, each prepared. The callers pass func and pars, and no key starting "_".
generate_command(kwargs) ==
    PDict([k \in {key \in DOMAIN kwargs : kwargs[key].t # "None"} |->
              prepare_arg(kwargs[k])])

HELP_URL == "https://textit.ego-ai.tech/api/1.0/help"

\* generate_payload (lines 56-70): a dict is wrapped in a new list, anything else
\* (the list object passed) is put into the payload as it is
generate_payload(commands) ==
    PDict([commands |-> PList(<< IF commands.t = "dict" THEN PList(<<commands>>)
                                 ELSE commands >>),
           href |-> PStr(HELP_URL)])

\* the stable insertion of candidate c into a list sorted by probability: c goes
\* behind every candidate whose probability is not greater
RECURSIVE InsertByProbability(_, _)
InsertByProbability(sorted, c) ==
    IF sorted = <<>>
    THEN <<c>>
    ELSE IF DictGet(c, "probability").v < DictGet(Head(sorted), "probability").v
         THEN <<c>> \o sorted
         ELSE <<Head(sorted)>> \o InsertByProbability(Tail(sorted), c)

\* list.sort(key=lambda x: x.get("probability")): ascending and stable
RECURSIVE SortByProbability(_)
SortByProbability(cs) ==
    IF cs = <<>> THEN <<>>
    ELSE InsertByProbability(SortByProbability(SubSeq(cs, 1, Len(cs) - 1)), cs[Len(cs)])

\* choose_response (lines 73-89); responses is a Python value
choose_response(responses) ==
    IF ~Truthy(responses)
    THEN Return(PNone)
    ELSE IF responses.t # "list"
    THEN IF responses.t = "dict"
         THEN Raise("AttributeError", "'str' object has no attribute 'get'")
         ELSE Raise("TypeError", "object is not iterable")
    ELSE IF \E i \in DOMAIN responses.v : responses.v[i].t # "dict"
    THEN Raise("AttributeError", "object has no attribute get")
    ELSE IF \A i \in DOMAIN responses.v : Truthy(DictGet(responses.v[i], "probability"))
    THEN Return(SortByProbability(responses.v)[1])
    ELSE Return(responses.v[1])

\* get_func_list (lines 92-101); commands is a sequence of command dicts
get_func_list(commands) ==
    [i \in DOMAIN commands |-> DictGet(commands[i], "func")]

\* sign_responses with every response taken from position 0
sign_responses_first(func_list, responses) ==
    IF func_list = <<>>
    THEN Return(<<>>)
    ELSE IF responses.t = "list"
    THEN IF Len(responses.v) < Len(func_list)
         THEN Raise("IndexError", "list index out of range")
         ELSE Return([i \in DOMAIN func_list |->
                         [func |-> func_list[i], response |-> responses.v[1]]])
    ELSE IF responses.t = "dict"
    THEN Raise("KeyError", "0")
    ELSE Raise("TypeError", "object is not subscriptable")

\* sign_responses (lines 104-118): responses[i] for every command, by position
sign_responses(func_list, responses) ==
    IF func_list = <<>>
    THEN Return(<<>>)
    ELSE IF responses.t = "list"
    THEN IF Len(responses.v) < Len(func_list)
         THEN Raise("IndexError", "list index out of range")
         ELSE Return([i \in DOMAIN func_list |->
                         [func |-> func_list[i], response |-> responses.v[i]]])
    ELSE IF responses.t = "dict"
    THEN Raise("KeyError", "0")
    ELSE Raise("TypeError", "object is not subscriptable")

(***************************************************************************)
(* The result classes: word.WordObject, numeral.NumeralObject,             *)
(* speller.SpellerObject                                                   *)
(***************************************************************************)
\* the attributes the class WordObject declares (word.py lines 79-97)
WordObjectAttrs ==
    {"word", "part", "case", "form", "gender", "kind", "animate", "number",
     "person", "tense", "prefix", "base", "interfix", "suffix", "ending",
     "postfix", "initial", "lemma", "type"}

\* those whose class attribute is an Enum class
WordObjectEnum ==
    ("part" :> "WordPart") @@ ("case" :> "WordCase") @@ ("form" :> "WordForm")
    @@ ("gender" :> "WordGender") @@ ("kind" :> "WordKind")
    @@ ("animate" :> "WordAnimate") @@ ("number" :> "WordNumber")
    @@ ("person" :> "WordPerson") @@ ("tense" :> "WordTense")

\* WordObject(**d) (word.py lines 99-106): the known attributes that are not None
\* are set, an Enum attribute from the member with that value
WordObject(d) ==
    IF d.t # "dict"
    THEN Raise("TypeError", "argument after ** must be a mapping")
    ELSE LET keys == {k \in DOMAIN d.v : k \in WordObjectAttrs /\ d.v[k].t # "None"}
             bad  == {k \in keys : /\ k \in DOMAIN WordObjectEnum
                                   /\ ~(/\ d.v[k].t = "int"
                                        /\ d.v[k].v \in EnumValues[WordObjectEnum[k]])}
         IN  IF bad # {}
             THEN Raise("ValueError", "is not a valid member")
             ELSE Return(PObj("WordObject",
                      [k \in keys |-> IF k \in DOMAIN WordObjectEnum
                                      THEN PEnum(WordObjectEnum[k], d.v[k].v)
                                      ELSE d.v[k]]))

\* NumeralObject(**d) (numeral.py lines 19-22): number and text, nothing else
NumeralObject(d) ==
    IF d.t # "dict"
    THEN Raise("TypeError", "argument after ** must be a mapping")
    ELSE IF DOMAIN d.v # {"number", "text"}
    THEN Raise("TypeError", "__init__() got unexpected or missing arguments")
    ELSE Return(PObj("NumeralObject", d.v))

\* SpellerObject(**d) (speller.py lines 6-9): word, position and optionally correct
SpellerObject(d) ==
    IF d.t # "dict"
    THEN Raise("TypeError", "argument after ** must be a mapping")
    ELSE IF ~({"word", "position"} \subseteq DOMAIN d.v
              /\ DOMAIN d.v \subseteq {"word", "position", "correct"})
    THEN Raise("TypeError", "__init__() got unexpected or missing arguments")
    ELSE Return(PObj("SpellerObject",
             [k \in {"word", "position", "correct"} |-> DictGet(d, k)]))

(***************************************************************************)
(* src/textit/textit.py: the shaping of results                            *)
(***************************************************************************)
ListKinds   == {APIMethod.CORRECT, APIMethod.HINT, APIMethod.COGNATE, APIMethod.SYNONYM}
ChosenWordKinds == {APIMethod.WORD, APIMethod.SET_FORM}

\* x[0] of a decoded value (a JSON object has string keys only, so 0 is no key)
Index0(x) ==
    CASE x.t = "list" -> IF Len(x.v) = 0
                         THEN Raise("IndexError", "list index out of range")
                         ELSE Return(x.v[1])
      [] x.t = "dict" -> Raise("KeyError", "0")
      [] x.t \in {"None", "int", "bool"} ->
                         Raise("TypeError", "object is not subscriptable")

\* the first exception among the outcomes of a comprehension, else the list built
ListOutcome(items) ==
    LET bad == {i \in DOMAIN items : items[i].kind = "raise"}
    IN  IF bad # {}
        THEN items[CHOOSE i \in bad : \A j \in bad : i <= j]
        ELSE Return(PList([i \in DOMAIN items |-> items[i].value]))

\* [WordObject(**word) if word else None for word in response]
\* (lines 53, 75, 268, 292 and 356): one entry per candidate, None for a falsy one
WordObjectList(response) ==
    IF response.t # "list"
    THEN Raise("TypeError", "argument after ** must be a mapping")
    ELSE ListOutcome([i \in DOMAIN response.v |->
                         IF Truthy(response.v[i])
                         THEN WordObject(response.v[i])
                         ELSE Return(PNone)])

\* the value of a call outcome passed on to a constructor, an exception kept
Then(outcome, F(_)) == IF outcome.kind = "raise" THEN outcome ELSE F(outcome.value)

\* response[0].get("text") (lines 315 and 367)
FirstText(response) ==
    LET first == Index0(response)
    IN  IF first.kind = "raise" THEN first
        ELSE IF first.value.t # "dict"
        THEN Raise("AttributeError", "object has no attribute get")
        ELSE Return(DictGet(first.value, "text"))

\* _wrap_response (lines 339-367); func_name is the str of the command's func
wrap_response(func_name, response) ==
    IF func_name \in {PStr(k) : k \in ListKinds}
    THEN IF Truthy(response) THEN WordObjectList(response) ELSE Return(PNone)
    ELSE IF func_name \in {PStr(k) : k \in ChosenWordKinds}
    THEN IF Truthy(response)
         THEN Then(choose_response(response), WordObject)
         ELSE Return(PNone)
    ELSE IF func_name = PStr(APIMethod.NUMERAL)
    THEN IF Truthy(response)
         THEN Then(choose_response(response), NumeralObject)
         ELSE Return(PNone)
    ELSE IF func_name = PStr(APIMethod.SPELLER)
    THEN IF Truthy(response) THEN SpellerObject(response) ELSE Return(PNone)
    ELSE IF func_name = PStr(APIMethod.LAT_TO_CYR)
    THEN IF Truthy(response) THEN FirstText(response) ELSE Return(PNone)
    ELSE Return(PNone)

\* send_request lines 332-336: what the call returns for the responses received
Reconcile(func_list, responses) ==
    LET signed == sign_responses(func_list, responses)
    IN  IF signed.kind = "raise"
        THEN signed
        ELSE ListOutcome([i \in DOMAIN signed.value |->
                 wrap_response(signed.value[i].func, signed.value[i].response)])

\* "X(**probable_response) if probable_response else None" (lines 131, 180, 244)
IfChosen(chosen, F(_)) ==
    IF chosen.kind = "raise" THEN chosen
    ELSE IF Truthy(chosen.value) THEN F(chosen.value) ELSE Return(PNone)

\* the lines of an operation after its await: what an immediate call returns for
\* the response make_request gave (lines 53, 75, 130-131, 153, 179-180, 243-244,
\* 268, 292, 315)
ImmediateResult(func, response) ==
    IF func \in ListKinds
    THEN Then(Index0(response), WordObjectList)
    ELSE IF func \in ChosenWordKinds
    THEN IfChosen(Then(Index0(response), choose_response), WordObject)
    ELSE IF func = APIMethod.NUMERAL
    THEN IfChosen(Then(Index0(response), choose_response), NumeralObject)
    ELSE IF func = APIMethod.SPELLER
    THEN IF Truthy(response) THEN Then(Index0(response), SpellerObject)
         ELSE Return(PNone)
    ELSE Then(Index0(response), FirstText)

(***************************************************************************)
(* src/textit/textit.py: the operations up to the command each builds.     *)
(* A call is a record of the operation's name and its arguments.           *)
(***************************************************************************)
HINT_MAX_LENGTH == 30
TEXT_MAX_LENGTH == 10000

ALotOfWordsMessage == "API doesn't support phrases of more than one word"

\* len(word.split(" ")) > 1 (lines 45, 112, 171, 222, 260, 284)
MoreThanOneWord(word) == Len(SplitOn(word, " ")) > 1

\* generate_command(func=..., pars={...}) as every operation calls it
Command(func, pars) ==
    generate_command([func |-> PStr(func), pars |-> PDict(pars)])

\* the single-word operations correct, word_info, cognate, synonym
\* (lines 45-49, 171-175, 260-264, 284-288)
word_command(func, c) ==
    IF MoreThanOneWord(c.word)
    THEN RaiseExc("ALotOfWords", ALotOfWordsMessage)
    ELSE Return(Command(func, [word |-> PStr(Join(c.word))]))

\* hint (lines 69-71)
hint_command(c) ==
    IF Len(c.text) > HINT_MAX_LENGTH
    THEN RaiseExc("ToLongText", "Maximum length of text is 30 characters")
    ELSE Return(Command(APIMethod.HINT, [text |-> PStr(Join(c.text))]))

\* speller and lat_to_cyr (lines 147-149, 309-311)
text_command(func, c) ==
    IF Len(c.text) > TEXT_MAX_LENGTH
    THEN RaiseExc("ToLongText", "Maximum length of text is 10000 characters")
    ELSE Return(Command(func, [text |-> PStr(Join(c.text))]))

\* numeral (lines 110-126)
numeral_command(c) ==
    IF c.number < 0
    THEN RaiseExc("NegativeNumber", "Negative number aren't allowed")
    ELSE IF MoreThanOneWord(c.word)
    THEN RaiseExc("ALotOfWords", ALotOfWordsMessage)
    ELSE Return(Command(APIMethod.NUMERAL,
             ("number" :> PInt(c.number)) @@ ("word" :> PStr(Join(c.word)))
             @@ ("case" :> c.case) @@ ("direct" :> c.direct)
             @@ ("reduce" :> PBool(c.reduce)) @@ ("format" :> c.format)))

\* set_form (lines 222-239)
set_form_command(c) ==
    IF MoreThanOneWord(c.word)
    THEN RaiseExc("ALotOfWords", ALotOfWordsMessage)
    ELSE Return(Command(APIMethod.SET_FORM,
             ("word" :> PStr(Join(c.word))) @@ ("part" :> c.part)
             @@ ("number" :> c.number) @@ ("gender" :> c.gender)
             @@ ("case" :> c.case) @@ ("tense" :> c.tense)
             @@ ("person" :> c.person) @@ ("form" :> c.form)
             @@ ("kind" :> c.kind)))

\* the API method of each operation
FuncOf ==
    [correct |-> APIMethod.CORRECT, hint |-> APIMethod.HINT,
     numeral |-> APIMethod.NUMERAL, speller |-> APIMethod.SPELLER,
     word_info |-> APIMethod.WORD, set_form |-> APIMethod.SET_FORM,
     cognate |-> APIMethod.COGNATE, synonym |-> APIMethod.SYNONYM,
     lat_to_cyr |-> APIMethod.LAT_TO_CYR]

SingleWordOps == {"correct", "word_info", "set_form", "cognate", "synonym"}

\* the validation and the command of a call: the command, or the error raised
OperationCommand(c) ==
    CASE c.op \in {"correct", "word_info", "cognate", "synonym"} ->
             word_command(FuncOf[c.op], c)
      [] c.op = "hint" -> hint_command(c)
      [] c.op \in {"speller", "lat_to_cyr"} -> text_command(FuncOf[c.op], c)
      [] c.op = "numeral" -> numeral_command(c)
      [] c.op = "set_form" -> set_form_command(c)

(***************************************************************************)
(* The arguments the calls are drawn from                                  *)
(***************************************************************************)
\* the word of the numeral example (five letters)
RUBL == <<"r", "u", "b", "l", "'">>

\* words: one token, two tokens around a space, a tab or a newline, a trailing space
Words ==
    { <<"a">>, <<"a", "b">>, <<"a", " ", "b">>, <<"a", "\t", "b">>,
      <<"a", "\n", "b">>, <<"a", " ">>, RUBL }

\* a text of n characters
TextOfLength(n) == [i \in 1..n |-> "a"]

Texts == { <<"a", " ", "b">>, TextOfLength(HINT_MAX_LENGTH), TextOfLength(HINT_MAX_LENGTH + 1) }

\* None or one member, for each optional argument of set_form
Optional(member) == {PNone, member}

SetFormCalls ==
    { [op |-> "set_form", word |-> w, part |-> pa, number |-> nu, gender |-> ge,
       case |-> ca, tense |-> te, person |-> pe, form |-> fo, kind |-> ki] :
        w \in {<<"a">>, <<"a", " ", "b">>, <<"a", "\t", "b">>}, pa \in Optional(WordPart_NOUN),
        nu \in Optional(WordNumber_PLURAL), ge \in Optional(WordGender_FEMININE),
        ca \in Optional(WordCase_GENITIVE), te \in Optional(WordTense_PAST),
        pe \in Optional(WordPerson_THIRD_PERSON), fo \in Optional(WordForm_SHORT),
        ki \in Optional(WordKind_PERFECT) }

NumeralCalls ==
    { [op |-> "numeral", number |-> n, word |-> w, case |-> ca, direct |-> di,
       reduce |-> re, format |-> fo] :
        n \in {-1, 0, 5, 1234}, w \in {<<"a">>, <<"a", " ", "b">>, RUBL},
        ca \in {WordCase_NOMINATIVE, WordCase_GENITIVE},
        di \in {PStr(NumeralType.COUNT), PStr(NumeralType.ORDER)},
        re \in BOOLEAN,
        fo \in {PStr(NumeralFormat.STRING), PStr(NumeralFormat.NUMBER)} }

WordCalls ==
    { [op |-> o, word |-> w] :
        o \in {"correct", "word_info", "cognate", "synonym"}, w \in Words }

TextCalls ==
    { [op |-> o, text |-> t] : o \in {"hint", "speller", "lat_to_cyr"}, t \in Texts }

Calls == WordCalls \cup TextCalls \cup NumeralCalls \cup SetFormCalls

(***************************************************************************)
(* The responses the classifier and the reconciler are given               *)
(***************************************************************************)
\* the error object of the wire format, and a candidate of a word
ErrorObject(message, status) ==
    PDict([message |-> PStr(message), status |-> PStr(status)])
Candidate(word) == PDict([word |-> PStr(word)])
ErrorBody(error) == PDict([error |-> error])

StatusCodes == {100, 200, 201, 226, 227, 300, 400, 401, 402, 403, 404, 409, 500, 503}
ContentTypes == {EXPECTED_CONTENT_TYPE, "application/json"}

Bodies ==
    { Undecodable(""),
      Undecodable("<html>oops</html>"),
      Decodable("{}", EmptyDict),
      Decodable("[]", PList(<<>>)),
      Decodable("5", PInt(5)),
      Decodable("\"text\"", PStr("text")),
      Decodable("{\"error\":{\"message\":\"bad\",\"status\":\"400\"}}",
                ErrorBody(ErrorObject("bad", "400"))),
      Decodable("[{\"error\":{\"message\":\"bad\",\"status\":\"400\"}}]",
                PList(<<ErrorBody(ErrorObject("bad", "400"))>>)),
      Decodable("{\"error\":{\"message\":\"bad\"}}",
                ErrorBody(PDict([message |-> PStr("bad")]))),
      Decodable("{\"error\":\"oops\"}", ErrorBody(PStr("oops"))),
      Decodable("{\"error\":null}", ErrorBody(PNone)),
      Decodable("{\"error\":{}}", ErrorBody(EmptyDict)),
      Decodable("{\"word\":\"a\"}", Candidate("a")),
      Decodable("[5]", PList(<<PInt(5)>>)),
      Decodable("[[{\"word\":\"a\"}],[{\"word\":\"b\"}]]",
                PList(<<PList(<<Candidate("a")>>), PList(<<Candidate("b")>>)>>)),
      Decodable("[[[{\"word\":\"a\"}],[{\"word\":\"b\"}]]]",
                PList(<<PList(<<PList(<<Candidate("a")>>), PList(<<Candidate("b")>>)>>)>>)) }

CheckArgs ==
    [content_type : ContentTypes, status_code : StatusCodes, body : Bodies]

(***************************************************************************)
(* The state of one client after construction (TextIT.__init__, lines      *)
(* 21-23): request is a new empty list, nothing is in flight.              *)
(***************************************************************************)
ClientInit ==
    /\ request = 1
    /\ lists = (1 :> <<>>)
    /\ tasks = <<>>
    /\ last = NotCalled
    /\ carried = <<>>
    /\ created = 0

CheckIdle  == cr_args = NotCalled /\ cr_result = NotCalled
ChooseIdle == ch_args = NotCalled /\ ch_result = NotCalled
CmdIdle    == cmd_call = NotCalled
WrapIdle   == wr_args = NotCalled /\ wr_result = NotCalled

(***************************************************************************)
(* SpecCheck: check_result applied to every response of CheckArgs          *)
(***************************************************************************)
InitCheck ==
    /\ ClientInit /\ ChooseIdle /\ CmdIdle /\ WrapIdle
    /\ cr_args \in CheckArgs
    /\ cr_result = NotCalled

CheckResult ==
    /\ cr_args # NotCalled
    /\ cr_result = NotCalled
    /\ cr_result' = check_result(cr_args.content_type, cr_args.status_code, cr_args.body)
    /\ UNCHANGED <<cr_args, clientVars, chooseVars, cmdVars, wrapVars>>

NextCheck == CheckResult

SpecCheck == InitCheck /\ [][NextCheck]_vars

(***************************************************************************)
(* SpecChoose: choose_response applied to every candidate list of up to    *)
(* MaxCandidates candidates                                                *)
(***************************************************************************)
MaxCandidates == 3
MaxProbability == 2

\* a candidate with a probability field
Probable(word, p) == PDict([word |-> PStr(word), probability |-> PInt(p)])

Candidates ==
    {Candidate(w) : w \in {"a", "b"}}
    \cup {Probable(w, p) : w \in {"a", "b"}, p \in 0..MaxProbability}

CandidateLists ==
    UNION {[1..n -> Candidates] : n \in 0..MaxCandidates}

InitChoose ==
    /\ ClientInit /\ CheckIdle /\ CmdIdle /\ WrapIdle
    /\ ch_args \in {PList(cs) : cs \in CandidateLists}
    /\ ch_result = NotCalled

ChooseResponse ==
    /\ ch_args # NotCalled
    /\ ch_result = NotCalled
    /\ ch_result' = choose_response(ch_args)
    /\ UNCHANGED <<ch_args, clientVars, checkVars, cmdVars, wrapVars>>

NextChoose == ChooseResponse

SpecChoose == InitChoose /\ [][NextChoose]_vars

(***************************************************************************)
(* SpecWrap: the reconciliation of a batch of up to MaxBatch commands, and *)
(* the shaping of an immediate call's response                             *)
(***************************************************************************)
MaxBatch == 2

NumeralResult == PDict([number |-> PStr("5"), text |-> PStr("five")])
SpellerResult == PDict([word |-> PStr("tetx"), position |-> PInt(8)])
TextResult    == PDict([text |-> PStr("abv")])

\* the raw results the server may give a command of a kind
RawResults(func) ==
    IF func \in ListKinds
    THEN {PList(<<>>), PList(<<Candidate("a")>>), PList(<<Candidate("a"), PNone>>),
          PList(<<EmptyDict, Candidate("b")>>)}
    ELSE IF func \in ChosenWordKinds
    THEN {PList(<<>>), PList(<<Probable("a", 2), Probable("b", 1)>>)}
    ELSE IF func = APIMethod.NUMERAL
    THEN {PList(<<>>), PList(<<NumeralResult>>)}
    ELSE IF func = APIMethod.SPELLER
    THEN {EmptyDict, SpellerResult}
    ELSE {PList(<<>>), PList(<<TextResult>>)}

Kinds == {APIMethod[k] : k \in DOMAIN APIMethod}

\* a command's kind with a raw result for it
KindResults == UNION {{<<f, r>> : r \in RawResults(f)} : f \in Kinds}

BatchArgs ==
    { [mode |-> "batch",
       func_list |-> [i \in DOMAIN b |-> PStr(b[i][1])],
       responses |-> PList([i \in DOMAIN b |-> b[i][2]])] :
         b \in UNION {[1..n -> KindResults] : n \in 1..MaxBatch} }

ImmediateArgs ==
    { [mode |-> "immediate", func |-> fr[1], response |-> PList(<<fr[2]>>)] :
         fr \in KindResults }

InitWrap ==
    /\ ClientInit /\ CheckIdle /\ ChooseIdle /\ CmdIdle
    /\ wr_args \in BatchArgs \cup ImmediateArgs
    /\ wr_result = NotCalled

\* send_request from line 332 on, for the responses of wr_args
ReconcileBatch ==
    /\ wr_args # NotCalled
    /\ wr_args.mode = "batch"
    /\ wr_result = NotCalled
    /\ wr_result' = Reconcile(wr_args.func_list, wr_args.responses)
    /\ UNCHANGED <<wr_args, clientVars, checkVars, chooseVars, cmdVars>>

\* an immediate operation after its await, for the response of wr_args
ShapeImmediate ==
    /\ wr_args # NotCalled
    /\ wr_args.mode = "immediate"
    /\ wr_result = NotCalled
    /\ wr_result' = ImmediateResult(wr_args.func, wr_args.response)
    /\ UNCHANGED <<wr_args, clientVars, checkVars, chooseVars, cmdVars>>

NextWrap == ReconcileBatch \/ ShapeImmediate

SpecWrap == InitWrap /\ [][NextWrap]_vars

(***************************************************************************)
(* Spec: one TextIT client. Every operation call runs, without suspension, *)
(* up to its return, its error or its await of the transport inside        *)
(* make_request; a suspended call is a task until its reply arrives.       *)
(***************************************************************************)
MaxCalls    == 2   \* deferred calls that pass validation
MaxInflight == 1   \* calls suspended on the transport at one time

Suspended == [kind |-> "suspended"]

\* a reference to a list object, as a payload holds it
ListRef(id) == [t |-> "listref", id |-> id]

\* the command dicts of a list object (the heap also keeps each dict's identity)
CommandsOf(objects) == [i \in DOMAIN objects |-> objects[i].cmd]

\* str(payload) (api.py line 64): the payload as it goes on the wire, with the
\* contents the referenced list has at that moment
Serialize(payload, heap) ==
    LET batch == payload.v["commands"].v[1]
    IN  PDict([commands |-> PList(<< IF batch.t = "listref"
                                     THEN PList(CommandsOf(heap[batch.id]))
                                     ELSE batch >>),
               href |-> payload.v["href"]])

\* the list objects a client and its suspended calls still refer to
Reachable(req, ts) ==
    {req} \cup {ts[i].payload.v["commands"].v[1].id :
                   i \in {j \in DOMAIN ts : ts[j].payload.v["commands"].v[1].t = "listref"}}

Collect(heap, req, ts) == [id \in DOMAIN heap \cap Reachable(req, ts) |-> heap[id]]

\* the identity of a new list object
FreshList(heap) ==
    CHOOSE n \in 1..(Cardinality(DOMAIN heap) + 1) :
        n \notin DOMAIN heap /\ \A m \in 1..(n - 1) : m \in DOMAIN heap

\* send_request without line 330: self.request keeps the list it had
DrainedRequestKept(req, fresh) == req

\* send_request line 330, self.request = []: the list object self.request refers
\* to afterwards is the new empty list, not the one the payload holds
DrainedRequest(req, fresh) == fresh

\* the raw result the server gives a command of a kind
CanonicalResult(func) ==
    IF func \in ListKinds THEN PList(<<Candidate("a")>>)
    ELSE IF func \in ChosenWordKinds THEN PList(<<Probable("a", 2), Probable("b", 1)>>)
    ELSE IF func = APIMethod.NUMERAL THEN PList(<<NumeralResult>>)
    ELSE IF func = APIMethod.SPELLER THEN SpellerResult
    ELSE PList(<<TextResult>>)

\* the commands a serialized payload carries
SentCommands(data) == data.v["commands"].v[1].v

\* the body that answers a payload: one array holding one raw result per command
AnswerValue(data) ==
    PList(<<PList([i \in DOMAIN SentCommands(data) |->
                      CanonicalResult(DictGet(SentCommands(data)[i], "func").v)])>>)

\* what the transport may give a suspended call: a response, or a failure of the
\* connection (aiohttp.ClientError)
Replies(data) ==
    { [kind |-> "response", content_type |-> EXPECTED_CONTENT_TYPE, status |-> 200,
       body |-> Decodable("[[...]]", AnswerValue(data))],
      [kind |-> "response", content_type |-> EXPECTED_CONTENT_TYPE, status |-> 200,
       body |-> Decodable("{\"error\":{\"message\":\"bad\",\"status\":\"400\"}}",
                          ErrorBody(ErrorObject("bad", "400")))],
      [kind |-> "response", content_type |-> EXPECTED_CONTENT_TYPE, status |-> 500,
       body |-> Undecodable("")],
      [kind |-> "response", content_type |-> "application/json", status |-> 200,
       body |-> Decodable("[[...]]", AnswerValue(data))],
      [kind |-> "ClientError"] }

\* make_request (api.py lines 59-71), from the reply of session.post on
make_request(reply) ==
    IF reply.kind = "ClientError"
    THEN RaiseExc("NetworkError", "aiohttp client throws an error: ClientError")
    ELSE check_result(reply.content_type, reply.status, reply.body)

Init == ClientInit /\ CheckIdle /\ ChooseIdle /\ CmdIdle /\ WrapIdle

Frame(call, func_list, payload, heap) ==
    [call |-> call, func_list |-> func_list, payload |-> payload,
     data |-> Serialize(payload, heap)]

\* the command put in front of the pending commands instead of behind them
request_append_front(pending, object) == <<object>> \o pending

\* self.request.append(command) (lines 51, 73, 128, 151, 177, 241, 266, 290, 313)
request_append(pending, object) == Append(pending, object)

\* An operation called with its arguments: validation and command (OperationCommand),
\* then "if not immediately: return self.request.append(command)", else the payload
\* of the one command is posted and the call awaits the reply.
Operation(c, immediately) ==
    LET o == OperationCommand(c)
        called == [call |-> c, immediately |-> immediately, step |-> "call",
                   pending |-> Len(lists[request])]
    IN  IF o.kind = "raise"
        THEN /\ last' = called @@ [outcome |-> o, posted |-> FALSE]
             /\ UNCHANGED <<request, lists, tasks, carried, created>>
        ELSE IF ~immediately
        THEN /\ created < MaxCalls
             /\ lists' = [lists EXCEPT ![request] =
                             request_append(@, [id |-> created + 1, cmd |-> o.value])]
             /\ created' = created + 1
             /\ carried' = Append(carried, 0)
             /\ last' = called @@ [outcome |-> Return(PNone), posted |-> FALSE]
             /\ UNCHANGED <<request, tasks>>
        ELSE /\ Len(tasks) < MaxInflight
             /\ tasks' = Append(tasks, Frame(c, <<>>, generate_payload(o.value), lists))
             /\ last' = called @@ [outcome |-> Suspended, posted |-> TRUE]
             /\ UNCHANGED <<request, lists, carried, created>>

ClientWords == { <<"a">>, <<"a", " ", "b">> }
ClientText  == <<"a", " ", "b">>

Correct ==
    /\ \E w \in ClientWords, im \in BOOLEAN : Operation([op |-> "correct", word |-> w], im)
    /\ UNCHANGED <<checkVars, chooseVars, cmdVars, wrapVars>>

Hint ==
    /\ \E im \in BOOLEAN : Operation([op |-> "hint", text |-> ClientText], im)
    /\ UNCHANGED <<checkVars, chooseVars, cmdVars, wrapVars>>

Numeral ==
    /\ \E n \in {-1, 5}, im \in BOOLEAN :
          Operation([op |-> "numeral", number |-> n, word |-> <<"a">>,
                     case |-> WordCase_NOMINATIVE, direct |-> PStr(NumeralType.COUNT),
                     reduce |-> FALSE, format |-> PStr(NumeralFormat.STRING)], im)
    /\ UNCHANGED <<checkVars, chooseVars, cmdVars, wrapVars>>

Speller ==
    /\ \E im \in BOOLEAN : Operation([op |-> "speller", text |-> ClientText], im)
    /\ UNCHANGED <<checkVars, chooseVars, cmdVars, wrapVars>>

WordInfo ==
    /\ \E w \in ClientWords, im \in BOOLEAN : Operation([op |-> "word_info", word |-> w], im)
    /\ UNCHANGED <<checkVars, chooseVars, cmdVars, wrapVars>>

SetForm ==
    /\ \E w \in ClientWords, im \in BOOLEAN :
          Operation([op |-> "set_form", word |-> w, part |-> PNone, number |-> PNone,
                     gender |-> PNone, case |-> WordCase_GENITIVE, tense |-> PNone,
                     person |-> PNone, form |-> PNone, kind |-> PNone], im)
    /\ UNCHANGED <<checkVars, chooseVars, cmdVars, wrapVars>>

Cognate ==
    /\ \E w \in ClientWords, im \in BOOLEAN : Operation([op |-> "cognate", word |-> w], im)
    /\ UNCHANGED <<checkVars, chooseVars, cmdVars, wrapVars>>

Synonym ==
    /\ \E w \in ClientWords, im \in BOOLEAN : Operation([op |-> "synonym", word |-> w], im)
    /\ UNCHANGED <<checkVars, chooseVars, cmdVars, wrapVars>>

LatToCyr ==
    /\ \E im \in BOOLEAN : Operation([op |-> "lat_to_cyr", text |-> ClientText], im)
    /\ UNCHANGED <<checkVars, chooseVars, cmdVars, wrapVars>>

SendRequestCall == [op |-> "send_request"]

\* send_request, lines 324-331: up to the await of make_request
SendRequest ==
    LET pending == lists[request]
        called  == [call |-> SendRequestCall, immediately |-> FALSE, step |-> "call",
                    pending |-> Len(pending)]
    IN  /\ IF pending = <<>>
           THEN /\ last' = called @@
                      [outcome |-> RaiseExc("BatchProcessingError",
                                            "Empty request list for batch processing"),
                       posted |-> FALSE]
                /\ UNCHANGED <<request, lists, tasks, carried, created>>
           ELSE LET func_list == get_func_list(CommandsOf(pending))
                    payload   == generate_payload(ListRef(request))
                    fresh     == FreshList(lists)
                    heap      == lists @@ (fresh :> <<>>)
                    after     == DrainedRequest(request, fresh)
                    frame     == Frame(SendRequestCall, func_list, payload, heap)
                    sent_ids  == {heap[payload.v["commands"].v[1].id][i].id :
                                     i \in DOMAIN heap[payload.v["commands"].v[1].id]}
                IN  /\ Len(tasks) < MaxInflight
                    /\ request' = after
                    /\ tasks' = Append(tasks, frame)
                    /\ lists' = Collect(heap, after, tasks')
                    /\ carried' = [i \in DOMAIN carried |->
                                      IF i \in sent_ids THEN carried[i] + 1 ELSE carried[i]]
                    /\ last' = called @@ [outcome |-> Suspended, posted |-> TRUE]
                    /\ UNCHANGED created
        /\ UNCHANGED <<checkVars, chooseVars, cmdVars, wrapVars>>

\* the suspended call stays suspended when its reply has arrived
KeepAwaiting(seq, i) == seq

\* the sequence without its i-th element
Without(seq, i) == SubSeq(seq, 1, i - 1) \o SubSeq(seq, i + 1, Len(seq))

\* A suspended call resumes with the transport's reply: make_request returns or
\* raises, and the call runs to its end (send_request lines 332-336, or the lines
\* of the operation after its await).
Resume ==
    /\ \E i \in DOMAIN tasks :
          \E reply \in Replies(tasks[i].data) :
             LET frame    == tasks[i]
                 response == make_request(reply)
                 outcome  ==
                    IF response.kind = "raise" THEN response
                    ELSE IF frame.call = SendRequestCall
                    THEN Reconcile(frame.func_list, response.value)
                    ELSE ImmediateResult(FuncOf[frame.call.op], response.value)
             IN  /\ tasks' = Without(tasks, i)
                 /\ lists' = Collect(lists, request, tasks')
                 /\ last' = [call |-> frame.call, immediately |-> frame.call # SendRequestCall,
                             step |-> "resume", pending |-> Len(lists[request]),
                             outcome |-> outcome, posted |-> FALSE]
    /\ UNCHANGED <<request, carried, created>>
    /\ UNCHANGED <<checkVars, chooseVars, cmdVars, wrapVars>>

Next ==
    \/ Correct \/ Hint \/ Numeral \/ Speller \/ WordInfo \/ SetForm
    \/ Cognate \/ Synonym \/ LatToCyr
    \/ SendRequest
    \/ Resume

Spec == Init /\ [][Next]_vars

(***************************************************************************)
(* SpecCall: one call, of any operation with any arguments of Calls, in    *)
(* either mode, on a client just constructed, and its resumption           *)
(***************************************************************************)
InitCall ==
    /\ ClientInit /\ CheckIdle /\ ChooseIdle /\ WrapIdle
    /\ cmd_call \in Calls

Call ==
    /\ cmd_call # NotCalled
    /\ last = NotCalled
    /\ \E im \in BOOLEAN : Operation(cmd_call, im)
    /\ UNCHANGED <<checkVars, chooseVars, cmdVars, wrapVars>>

NextCall == Call \/ Resume

SpecCall == InitCall /\ [][NextCall]_vars

(***************************************************************************)
(* Properties of check_result (SpecCheck)                                  *)
(***************************************************************************)
\* the object the classifier looks at: the decoded body, or its first element
\* when the decoded body is a list
ClassifiedObject(body) ==
    IF body.value.t = "list" THEN body.value.v[1] ELSE body.value

HasClassifiedObject(body) ==
    body.json /\ (body.value.t = "list" => Len(body.value.v) > 0)

CarriesErrorField(body) ==
    /\ HasClassifiedObject(body)
    /\ ClassifiedObject(body).t = "dict"
    /\ "error" \in DOMAIN ClassifiedObject(body).v

\* the error field is an error object of the wire format: an object with a message
CarriesErrorObject(body) ==
    /\ CarriesErrorField(body)
    /\ ClassifiedObject(body).v["error"].t = "dict"
    /\ "message" \in DOMAIN ClassifiedObject(body).v["error"].v

CheckDone == cr_result # NotCalled

SuccessStatus(status_code) == 200 <= status_code /\ status_code <= 226

\* C5 as stated: on success (expected content type, no error field, status
\* 200-226) check_result returns the decoded body unchanged, whatever its shape
\* (stated here for the bodies that decode and are not the empty array).
C5_ReturnsDecodedBody ==
    (/\ CheckDone
     /\ cr_args.content_type = "text/html"
     /\ HasClassifiedObject(cr_args.body)
     /\ ~CarriesErrorField(cr_args.body)
     /\ SuccessStatus(cr_args.status_code))
    => cr_result = Return(cr_args.body.value)

\* C5 amended: on success check_result returns the decoded body unchanged when it
\* is not a list, and the first element of the decoded body when it is a
\* non-empty list.
C5_ReturnsClassifiedObject ==
    (/\ CheckDone
     /\ cr_args.content_type = "text/html"
     /\ HasClassifiedObject(cr_args.body)
     /\ ~CarriesErrorField(cr_args.body)
     /\ SuccessStatus(cr_args.status_code))
    => /\ cr_result.kind = "return"
       /\ cr_args.body.value.t = "list" => cr_result.value = cr_args.body.value.v[1]
       /\ cr_args.body.value.t # "list" => cr_result.value = cr_args.body.value

\* C5 witness: a decoded array of two per-command arrays, returned as its first
\* element only
C5_Witness ==
    /\ CheckDone
    /\ SuccessStatus(cr_args.status_code)
    /\ cr_args.body.json
    /\ cr_args.body.value.t = "list"
    /\ Len(cr_args.body.value.v) = 2
    /\ cr_result.kind = "return"
    /\ cr_result.value = cr_args.body.value.v[1]
    /\ cr_result.value # cr_args.body.value

\* the outcome in short: "return", or the class of the exception raised
OutcomeClass(outcome) == IF outcome.kind = "return" THEN "return" ELSE outcome.exc

\* the outcome the status mapping of the claim gives a status code
ByStatusAlone(status_code) ==
    IF status_code \in 200..226 THEN "return"
    ELSE IF status_code = 400 THEN "BadRequest"
    ELSE IF status_code = 404 THEN "NotFound"
    ELSE IF status_code = 409 THEN "Conflict"
    ELSE IF status_code \in {401, 403} THEN "Unauthorized"
    ELSE "APIError"

\* C11 as stated: for a response with the expected content type and no error field
\* the outcome of check_result is decided by the HTTP status alone: 200-226
\* succeeds, 400 raises BadRequest, 404 NotFound, 409 Conflict, 401 and 403
\* Unauthorized, and every other status raises APIError.
C11_OutcomeByStatusAlone ==
    (/\ CheckDone
     /\ cr_args.content_type = "text/html"
     /\ ~CarriesErrorField(cr_args.body))
    => OutcomeClass(cr_result) = ByStatusAlone(cr_args.status_code)

\* the errors of the library: APIError and the classes derived from it
LibraryErrors ==
    {"APIError"} \cup {e \in DOMAIN ExceptionBase : ExceptionBase[e] = "APIError"}

\* C14 as stated: for every content type, HTTP status and body text, check_result
\* returns a value or raises NetworkError, APIError or a subclass of APIError, no
\* other exception escapes, and a body that is no JSON is treated as the empty
\* object.
C14_OnlyLibraryErrors ==
    CheckDone
    => /\ OutcomeClass(cr_result) \in {"return"} \cup LibraryErrors
       /\ (/\ ~cr_args.body.json
           /\ cr_args.content_type = "text/html"
           /\ SuccessStatus(cr_args.status_code))
          => cr_result = Return(EmptyDict)

(***************************************************************************)
(* Properties of choose_response (SpecChoose)                              *)
(***************************************************************************)
ProbabilityOf(c) == c.v["probability"].v

\* the first position, in the original order, of a candidate of least probability
FirstMinimum(cs) ==
    CHOOSE i \in DOMAIN cs :
        /\ \A j \in DOMAIN cs : ProbabilityOf(cs[i]) <= ProbabilityOf(cs[j])
        /\ \A j \in 1..(i - 1) : ProbabilityOf(cs[j]) > ProbabilityOf(cs[i])

\* C6 as stated: for a non-empty list in which every candidate has a probability
\* field, choose_response returns the candidate of minimum probability, the first
\* in the original order among those tied for it.
C6_MinimumProbabilityFirst ==
    (/\ ch_result # NotCalled
     /\ Len(ch_args.v) > 0
     /\ \A i \in DOMAIN ch_args.v : "probability" \in DOMAIN ch_args.v[i].v)
    => ch_result = Return(ch_args.v[FirstMinimum(ch_args.v)])

(***************************************************************************)
(* Properties of the commands and payloads (SpecCall)                      *)
(***************************************************************************)
OptionalParams == {"part", "number", "gender", "case", "tense", "person", "form", "kind"}

\* the serialized command has an entry for the parameter: a key of the command
\* object, or a key of its pars object
HasEntry(command, k) ==
    \/ k \in DOMAIN command.v
    \/ /\ "pars" \in DOMAIN command.v
       /\ command.v["pars"].t = "dict"
       /\ k \in DOMAIN command.v["pars"].v

\* the command objects the client holds: pending ones, and those of the payloads
\* its suspended calls have sent
HeldCommands ==
    {lists[request][i].cmd : i \in DOMAIN lists[request]}
    \cup UNION {{SentCommands(tasks[i].data)[j] : j \in DOMAIN SentCommands(tasks[i].data)} :
                   i \in DOMAIN tasks}

\* C7 as stated: a parameter whose value is None is absent from the serialized
\* command; it is emitted neither as null nor as an empty string.
C7_NoneParametersOmitted ==
    (last # NotCalled /\ last.step = "call" /\ last.call.op = "set_form")
    => \A command \in HeldCommands :
          \A k \in OptionalParams :
             last.call[k] = PNone => ~HasEntry(command, k)

NumeralExampleCall ==
    [op |-> "numeral", number |-> 1234, word |-> RUBL, case |-> WordCase_NOMINATIVE,
     direct |-> PStr("count"), reduce |-> FALSE, format |-> PStr("string")]

PayloadOf(command) ==
    PDict([commands |-> PList(<<PList(<<command>>)>>),
           href |-> PStr("https://textit.ego-ai.tech/api/1.0/help")])

\* the immediate example call is suspended on the transport
ExampleCallPosted ==
    /\ last # NotCalled
    /\ last.step = "call"
    /\ last.call = NumeralExampleCall
    /\ last.immediately

\* C8 as stated: numeral(number=1234, word=<the example word>) with the defaults
\* sends the payload {"commands": [[C]], "href": <help URL>} with the flat command
\* C = {func: numeral, number: 1234, word, case: nominative, direct: count,
\* reduce: false, format: string}.
C8_FlatNumeralPayload ==
    ExampleCallPosted
    => /\ Len(tasks) = 1
       /\ tasks[1].data =
            PayloadOf(PDict(("func" :> PStr("numeral")) @@ ("number" :> PStr("1234"))
                @@ ("word" :> PStr("rubl'")) @@ ("case" :> PStr("nominative"))
                @@ ("direct" :> PStr("count")) @@ ("reduce" :> PStr("false"))
                @@ ("format" :> PStr("string"))))

\* C8 amended: the payload is {"commands": [[C]], "href": <help URL>} where C has
\* the two entries func = numeral and pars, and pars is the object {number: 1234,
\* word, case: 1 (the value of WordCase.NOMINATIVE), direct: count, reduce: false,
\* format: string}, every value a string.
C8_NestedNumeralPayload ==
    ExampleCallPosted
    => /\ Len(tasks) = 1
       /\ tasks[1].data =
            PayloadOf(PDict(
                ("func" :> PStr("numeral"))
                @@ ("pars" :> PDict(("number" :> PStr("1234"))
                      @@ ("word" :> PStr("rubl'")) @@ ("case" :> PStr("1"))
                      @@ ("direct" :> PStr("count")) @@ ("reduce" :> PStr("false"))
                      @@ ("format" :> PStr("string"))))))

\* C8 witness: the example call has posted its payload and awaits the reply
C8_Witness ==
    /\ ExampleCallPosted
    /\ last.posted
    /\ Len(tasks) = 1
    /\ DOMAIN SentCommands(tasks[1].data)[1].v = {"func", "pars"}

(***************************************************************************)
(* Properties of the reconciliation (SpecWrap)                             *)
(***************************************************************************)
WrapDone == wr_result # NotCalled

\* the shape of a returned value: the class of an object, else the Python type
ShapeOf(x) == IF x.t = "obj" THEN x.cls ELSE x.t

\* the shape the claim gives each operation kind
ExpectedShape(func) ==
    CASE func \in {"correct", "hint", "cognate", "synonym"} -> "list"
      [] func \in {"word", "setform"} -> "WordObject"
      [] func = "numeral" -> "NumeralObject"
      [] func = "speller" -> "SpellerObject"
      [] func = "lattocyr" -> "str"

ShapedFrom(func, raw, r) ==
    CASE ExpectedShape(func) = "list" ->
             /\ r.t = "list"
             /\ Len(r.v) = Len(raw.v)
             /\ \A j \in DOMAIN r.v :
                   r.v[j].t # "None" =>
                      /\ ShapeOf(r.v[j]) = "WordObject"
                      /\ r.v[j].v["word"] = raw.v[j].v["word"]
      [] ExpectedShape(func) = "WordObject" ->
             /\ ShapeOf(r) = "WordObject"
             /\ \E j \in DOMAIN raw.v : r.v["word"] = raw.v[j].v["word"]
      [] ExpectedShape(func) = "NumeralObject" ->
             /\ ShapeOf(r) = "NumeralObject"
             /\ \E j \in DOMAIN raw.v : r.v = raw.v[j].v
      [] ExpectedShape(func) = "SpellerObject" ->
             /\ ShapeOf(r) = "SpellerObject"
             /\ r.v["word"] = raw.v["word"]
             /\ r.v["position"] = raw.v["position"]
      [] ExpectedShape(func) = "str" ->
             r = raw.v[1].v["text"]

OnePerTruthyCandidate(list, raw) ==
    /\ \A j \in DOMAIN list.v : list.v[j].t # "None"
    /\ Len(list.v) = Cardinality({j \in DOMAIN raw.v : Truthy(raw.v[j])})

\* C10 as stated: the list a list-shaped operation returns, from an immediate call
\* or from the reconciliation of a batch, has exactly one WordObject per truthy raw
\* candidate and no entry, so no None, for a falsy one.
C10_FalsyCandidatesSkipped ==
    WrapDone =>
       /\ (wr_args.mode = "immediate" /\ ExpectedShape(wr_args.func) = "list")
            => /\ wr_result.kind = "return"
               /\ OnePerTruthyCandidate(wr_result.value, wr_args.response.v[1])
       /\ (wr_args.mode = "batch" /\ wr_result.kind = "return")
            => \A i \in DOMAIN wr_args.func_list :
                  (/\ ExpectedShape(wr_args.func_list[i].v) = "list"
                   /\ wr_result.value.v[i].t = "list")
                  => OnePerTruthyCandidate(wr_result.value.v[i], wr_args.responses.v[i])

(***************************************************************************)
(* Properties of one client (Spec)                                         *)
(***************************************************************************)
\* the identities of the commands in the pending batch
PendingIds == {lists[request][i].id : i \in DOMAIN lists[request]}

\* the suspended send_request calls
SendsInFlight == {i \in DOMAIN tasks : tasks[i].call = SendRequestCall}

\* the list object the payload of a suspended send_request holds
PayloadList(i) == tasks[i].payload.v["commands"].v[1].id

\* C1: in every state of every interleaving of deferred calls, send_request calls
\* and resumptions, the payload of a suspended send_request holds a list that is
\* not the pending batch and still has the commands it was posted with (a command
\* appended after the drain is not part of it), and every validated deferred
\* command is either still pending and in no payload, or out of the pending batch
\* and carried by the payload of exactly one send_request.
C1_EachCommandInOnePayload ==
    /\ \A i \in SendsInFlight :
          /\ PayloadList(i) # request
          /\ Serialize(tasks[i].payload, lists) = tasks[i].data
          /\ \A j \in DOMAIN lists[PayloadList(i)] :
                lists[PayloadList(i)][j].id \notin PendingIds
    /\ \A id \in 1..created :
          carried[id] + (IF id \in PendingIds THEN 1 ELSE 0) = 1

\* C1 witness: a deferred call has appended its command while a send_request that
\* carries an earlier command is suspended on the transport
C1_Witness ==
    /\ SendsInFlight # {}
    /\ last.step = "call"
    /\ last.call # SendRequestCall
    /\ ~last.immediately
    /\ last.outcome = Return(PNone)
    /\ created = 2
    /\ carried = <<1, 0>>
    /\ PendingIds = {2}

\* C2 as stated: send_request called while the pending batch is empty raises
\* BatchProcessingError, builds no payload and makes no transport call.
C2_EmptyBatchRaisesBatchProcessingError ==
    (/\ last # NotCalled
     /\ last.call = SendRequestCall
     /\ last.step = "call"
     /\ last.pending = 0)
    => /\ last.outcome.kind = "raise"
       /\ last.outcome.exc = "BatchProcessingError"
       /\ ~last.posted

\* the pending batch before and after a step
Pending     == lists[request]
PendingNext == lists'[request']

\* a step of the client, told from the record of the call it leaves in last
DeferredAppend ==
    /\ last'.step = "call" /\ last'.call # SendRequestCall
    /\ ~last'.immediately /\ last'.outcome.kind # "raise"
ImmediatePost ==
    /\ last'.step = "call" /\ last'.call # SendRequestCall
    /\ last'.immediately /\ last'.outcome.kind # "raise"
FailedValidation ==
    /\ last'.step = "call" /\ last'.call # SendRequestCall
    /\ last'.outcome.kind = "raise"
Drain ==
    /\ last'.step = "call" /\ last'.call = SendRequestCall
    /\ last'.outcome.kind # "raise"

\* C12: in every step of one client the pending batch stays the sequence of the
\* commands of the validated deferred calls since the last drain, in call order: a
\* deferred call that passes validation appends exactly its one command at the
\* tail, returns None and posts nothing; an immediate call and a call that fails
\* validation leave the pending batch as it is; the payload of an immediate call
\* holds its own command only, whatever is pending; send_request drains the batch
\* to empty and a resumption leaves it as it is.
C12_PendingIsDeferredSinceDrain ==
    [][ /\ DeferredAppend
          => /\ Len(PendingNext) = Len(Pending) + 1
             /\ SubSeq(PendingNext, 1, Len(Pending)) = Pending
             /\ PendingNext[Len(PendingNext)].cmd = OperationCommand(last'.call).value
             /\ last'.outcome = Return(PNone)
             /\ ~last'.posted
             /\ tasks' = tasks
        /\ ImmediatePost
          => /\ PendingNext = Pending
             /\ Len(tasks') = Len(tasks) + 1
             /\ SentCommands(tasks'[Len(tasks')].data)
                   = <<OperationCommand(last'.call).value>>
        /\ FailedValidation => (PendingNext = Pending /\ tasks' = tasks)
        /\ Drain => (PendingNext = <<>> /\ Pending # <<>>)
        /\ last'.step = "resume" => PendingNext = Pending
      ]_vars

\* C12 witness: after two deferred calls an immediate call has posted its own
\* command alone, and the two commands are pending in call order
C12_Witness ==
    /\ Len(lists[request]) = 2
    /\ lists[request][1].id = 1 /\ lists[request][2].id = 2
    /\ last.step = "call" /\ last.immediately /\ last.posted
    /\ Len(tasks) = 1
    /\ Len(SentCommands(tasks[1].data)) = 1

\* the identities of the commands a list object holds
IdsOf(objects) == {objects[i].id : i \in DOMAIN objects}

\* the step resumes the suspended send_request i with an error of the library
FailedSend(i) ==
    /\ tasks[i].call = SendRequestCall
    /\ last'.step = "resume" /\ last'.call = SendRequestCall
    /\ last'.outcome.kind = "raise"
    /\ last'.outcome.exc \in LibraryErrors
    /\ Len(tasks') = Len(tasks) - 1
    /\ \A j \in DOMAIN tasks' : tasks'[j] = tasks[IF j < i THEN j ELSE j + 1]

\* C13: a send_request of a non-empty batch posts one payload; when its transport
\* call or the classification of the response fails, the resumption hands the
\* error to the caller without a further transport call, the drained commands
\* are not pending again, the pending batch is empty unless a deferred call was
\* made since the drain, and a send_request on the empty batch is an empty
\* submission: it raises and posts nothing.
C13_FailedSendNotRequeued ==
    [][ /\ Drain => (Len(tasks') = Len(tasks) + 1 /\ last'.posted)
        /\ (last'.step = "resume" /\ last'.call = SendRequestCall)
             => (Len(tasks') = Len(tasks) - 1 /\ ~last'.posted)
        /\ \A i \in DOMAIN tasks :
              FailedSend(i)
              => LET drained == IdsOf(lists[PayloadList(i)])
                 IN  /\ drained # {}
                     /\ drained \cap IdsOf(PendingNext) = {}
                     /\ \A id \in drained : carried'[id] = 1
                     /\ (\A id \in drained : id <= created /\ \E d \in drained : d = created)
                           => PendingNext = <<>>
        /\ (last'.step = "call" /\ last'.call = SendRequestCall /\ Pending = <<>>)
             => (last'.outcome.kind = "raise" /\ ~last'.posted /\ tasks' = tasks)
      ]_vars

\* C13 witness: the send_request that drained the first command has ended in
\* NetworkError, no call is suspended and nothing is pending
C13_Witness ==
    /\ last # NotCalled
    /\ last.step = "resume" /\ last.call = SendRequestCall
    /\ last.outcome.kind = "raise" /\ last.outcome.exc = "NetworkError"
    /\ created = 1 /\ carried = <<1>>
    /\ tasks = <<>>
    /\ lists[request] = <<>>

(***************************************************************************)
(* Properties of the validation of a call (SpecCall)                       *)
(***************************************************************************)
WhiteSpace == {" ", "\t", "\n"}

\* the number of whitespace-separated tokens of a word
RECURSIVE TokenCount(_)
TokenCount(cs) ==
    IF cs = <<>> THEN 0
    ELSE (IF /\ Head(cs) \notin WhiteSpace
             /\ (Len(cs) = 1 \/ cs[2] \in WhiteSpace)
          THEN 1 ELSE 0) + TokenCount(Tail(cs))

\* C9 as stated: a single-word operation (correct, word_info, set_form, cognate,
\* synonym) called, in either mode, with an input of more than one
\* whitespace-separated token fails with ALotOfWords, appends no command and makes
\* no transport call.
C9_ManyTokensRejected ==
    (/\ last # NotCalled
     /\ last.step = "call"
     /\ last.call.op \in SingleWordOps
     /\ TokenCount(last.call.word) > 1)
    => /\ last.outcome.kind = "raise"
       /\ last.outcome.exc = "ALotOfWords"
       /\ ~last.posted
       /\ tasks = <<>>
       /\ lists[request] = <<>>

====
